---- MODULE Spec2Model ----
(***************************************************************************)
(* Model of youtube_dl/extractor/panopto.py: the error classifier          *)
(* handle_error_response, the delivery normaliser                          *)
(* PanoptoIE._download_panopto_video with its chapter extractor and format *)
(* ordering, and the paginated folder aggregation                          *)
(* PanoptoFolderIE._real_extract.                                          *)
(*                                                                         *)
(* JSON scalars are records [tag, s, n]: tag is "absent" (key missing),    *)
(* "null", "str", "int" or "float"; a string is the sequence s of its      *)
(* pieces (so that joining, splitting at the last dot and substring tests  *)
(* are computed), a number is n.  JSON lists are records [tag, items].     *)
(***************************************************************************)
EXTENDS Integers, Sequences, FiniteSets, TLC

\* ---------------------------------------------------------------- bounds
MaxPodcasts == 1
MaxStreams == 2
MaxTimestamps == 2
MaxSessions == 3
MaxPages == 2
MaxTotal == 2

\* ------------------------------------------------------- program constant
PAGE_SIZE == 100

\* ------------------------------------------------------------ JSON values
Absent == [tag |-> "absent", s |-> <<>>, n |-> 0]
None == [tag |-> "null", s |-> <<>>, n |-> 0]
Str(s) == [tag |-> "str", s |-> s, n |-> 0]
IntVal(n) == [tag |-> "int", s |-> <<>>, n |-> n]
FloatVal(n) == [tag |-> "float", s |-> <<>>, n |-> n]

AbsentList == [tag |-> "absent", items |-> <<>>]
NullList == [tag |-> "null", items |-> <<>>]
List(items) == [tag |-> "list", items |-> items]

\* dict.get(key): a missing key reads as None
Get(v) == IF v.tag = "absent" THEN None ELSE v

\* dict.get(key, default): only a missing key reads as the default
GetDefault(v, default) == IF v.tag = "absent" THEN default ELSE v

\* Python truthiness of a scalar
Truthy(v) ==
    \/ v.tag = "str" /\ v.s # <<>>
    \/ v.tag \in {"int", "float"} /\ v.n # 0

\* Python truthiness of a list value read with .get(key)
TruthyList(l) == l.tag = "list" /\ l.items # <<>>

\* the substring test  piece in text
Contains(text, piece) == \E i \in 1..Len(text) : text[i] = piece

SeqsUpTo(S, k) == UNION {[1..m -> S] : m \in 0..k}

\* ----------------------------------------------------- error classifier
NoError == [kind |-> "none", code |-> 0, msg |-> None, expected |-> FALSE]
Raise(kind) == [kind |-> kind, code |-> 0, msg |-> None, expected |-> FALSE]

\* handle_error_response: the error it raises, NoError when it returns
handle_error_response(response) ==
    IF Truthy(Get(response.ErrorCode))
    THEN IF Get(response.ErrorMessage).tag # "str"
         THEN Raise("TypeError")     \* "Unauthorized" in None
         ELSE IF Contains(Get(response.ErrorMessage).s, "Unauthorized")
         THEN [kind |-> "auth-required", code |-> 0, msg |-> None,
               expected |-> TRUE]
         ELSE [kind |-> "api-error", code |-> Get(response.ErrorCode).n,
               msg |-> Get(response.ErrorMessage), expected |-> FALSE]
    ELSE NoError

\* ------------------------------------------------------ chapter extractor
\* utils.float_or_none: None stays None, a number becomes a float
FloatOrNone(v) == IF v.tag \in {"int", "float"} THEN FloatVal(v.n) ELSE None

NoChapters == [kind |-> "none", items |-> <<>>]

\* line 42: the end of the chapter paired with next_ts; next_ts is the
\* following timestamp entry, or vid_time itself for the last chapter
ChapterEndRaises(timestamps, vid_time) ==
    \* the last next_ts is vid_time: anything but a float has no .get
    vid_time.tag # "float"

ChapterEnd(timestamps, vid_time, i) ==
    IF i < Len(timestamps)
    THEN GetDefault(timestamps[i + 1].Time, vid_time)
    ELSE vid_time

ChapterTitle(cur_ts) ==
    IF Truthy(Get(cur_ts.Caption)) THEN Get(cur_ts.Caption) ELSE Get(cur_ts.Data)

_try_parse_timestamps(delivery) ==
    LET vid_time == Get(delivery.Duration)
        timestamps == delivery.Timestamps
    IN  IF ~Truthy(vid_time) THEN NoChapters
        ELSE IF ~TruthyList(timestamps) THEN NoChapters
        ELSE IF ChapterEndRaises(timestamps.items, vid_time)
        THEN [kind |-> "raise", items |-> <<>>]
        ELSE [kind |-> "list",
              items |-> [i \in 1..Len(timestamps.items) |->
                  [start_time |-> FloatOrNone(Get(timestamps.items[i].Time)),
                   end_time |-> FloatOrNone(
                       ChapterEnd(timestamps.items, vid_time, i)),
                   title |-> ChapterTitle(timestamps.items[i])]]]

\* ------------------------------------------------------------------ title
\* " -> ".join(parts) for the list of truthy parts
JoinArrow(parts) ==
    IF Len(parts) = 0 THEN <<>>
    ELSE IF Len(parts) = 1 THEN parts[1].s
    ELSE parts[1].s \o <<" -> ">> \o parts[2].s

\* lines 66-69
Title(delivery, video_id) ==
    LET candidates == <<Get(delivery.SessionGroupLongName),
                        Get(delivery.SessionName)>>
        joined == JoinArrow(SelectSeq(candidates, Truthy))
    IN  IF joined # <<>> THEN Str(joined)
        ELSE GetDefault(delivery.PublicID, Str(video_id))

\* ---------------------------------------------------------------- formats
\* lines 72-78: one "podcast" format per podcast entry with a truthy url
PodcastFormat(podcast) ==
    [url |-> Get(podcast.StreamUrl).s, ext |-> Absent,
     format_note |-> <<"podcast">>]

PodcastFormats(podcasts) ==
    LET kept == SelectSeq(podcasts, LAMBDA p : Truthy(Get(p.StreamUrl)))
    IN  [i \in 1..Len(kept) |-> PodcastFormat(kept[i])]

\* the regular expression (?P<filename>.*).*\.(?P<ext>.*) of line 87:
\* it matches when the name holds a dot, filename is what precedes the
\* last dot and ext what follows it
LastDot(name) ==
    IF Contains(name, ".")
    THEN CHOOSE i \in 1..Len(name) :
            /\ name[i] = "."
            /\ \A j \in (i + 1)..Len(name) : name[j] # "."
    ELSE 0

\* lines 83-101
StreamFormat(stream) ==
    LET stream_name == IF Truthy(Get(stream.Name))
                       THEN Get(stream.Name).s ELSE <<>>
        dot == LastDot(stream_name)
        filename == SubSeq(stream_name, 1, dot - 1)
        stream_ext == SubSeq(stream_name, dot + 1, Len(stream_name))
        url == Get(stream.StreamUrl).s
    IN  IF dot # 0
        THEN [url |-> url, ext |-> Str(stream_ext),
              format_note |->
                  IF Contains(filename, "Shared screen")
                  THEN <<"shared-screen">>
                  ELSE IF Contains(filename, "Speaker view")
                  THEN <<"speaker-view">>
                  ELSE filename]
        ELSE IF stream_name # <<>>
        THEN [url |-> url, ext |-> Absent, format_note |-> stream_name]
        ELSE [url |-> url, ext |-> Absent, format_note |-> <<"unknown">>]

\* lines 79-103: entries without a truthy url are skipped
StreamFormats(streams) ==
    LET kept == SelectSeq(streams, LAMBDA st : Truthy(Get(st.StreamUrl)))
    IN  [i \in 1..Len(kept) |-> StreamFormat(kept[i])]

\* lines 71-103: the formats in discovery order
CollectFormats(delivery) ==
    PodcastFormats(GetDefault(delivery.PodcastStreams, List(<<>>)).items)
    \o StreamFormats(GetDefault(delivery.Streams, List(<<>>)).items)

\* lines 110-114
FORMAT_TO_ORDERING(format_note) ==
    CASE format_note = <<"podcast">> -> 3
      [] format_note = <<"shared-screen">> -> 2
      [] format_note = <<"speaker-view">> -> 1
      [] OTHER -> 0

\* sorted(formats, key=...) is a stable sort into increasing key order:
\* an element goes behind every element whose key is not larger
RECURSIVE InsertByKey(_, _)
InsertByKey(sorted, fmt) ==
    IF sorted = <<>> THEN <<fmt>>
    ELSE IF FORMAT_TO_ORDERING(Head(sorted).format_note)
            <= FORMAT_TO_ORDERING(fmt.format_note)
    THEN <<Head(sorted)>> \o InsertByKey(Tail(sorted), fmt)
    ELSE <<fmt>> \o sorted

\* the same insertion for sorted(..., reverse=True)
RECURSIVE InsertByKeyDescending(_, _)
InsertByKeyDescending(sorted, fmt) ==
    IF sorted = <<>> THEN <<fmt>>
    ELSE IF FORMAT_TO_ORDERING(Head(sorted).format_note)
            >= FORMAT_TO_ORDERING(fmt.format_note)
    THEN <<Head(sorted)>> \o InsertByKeyDescending(Tail(sorted), fmt)
    ELSE <<fmt>> \o sorted

RECURSIVE SortFormatsDescending(_)
SortFormatsDescending(formats) ==
    IF formats = <<>> THEN <<>>
    ELSE InsertByKeyDescending(
             SortFormatsDescending(SubSeq(formats, 1, Len(formats) - 1)),
             formats[Len(formats)])

\* line 115
RECURSIVE SortFormats(_)
SortFormats(formats) ==
    IF formats = <<>> THEN <<>>
    ELSE InsertByKey(SortFormats(SubSeq(formats, 1, Len(formats) - 1)),
                     formats[Len(formats)])

\* ---------------------------------------------------- delivery normaliser
NoInfo ==
    [id |-> <<>>, title |-> None, description |-> None, creator |-> None,
     duration |-> None, formats |-> <<>>, chapters |-> NoChapters]

Failed(error) == [ok |-> FALSE, error |-> error, info |-> NoInfo]

\* line 105 without the emptiness test
FormatsMissingUnchecked(formats) == FALSE

\* line 105
FormatsMissing(formats) == formats = <<>>

\* lines 57-125: what _download_panopto_video returns or raises for the
\* response its request receives
_download_panopto_video(response, video_id) ==
    IF ~response.transport_ok THEN Failed(Raise("transport"))
    ELSE IF handle_error_response(response).kind # "none"
    THEN Failed(handle_error_response(response))
    ELSE IF ~response.hasDelivery THEN Failed(Raise("KeyError"))
    ELSE LET delivery == response.Delivery
             formats == CollectFormats(delivery)
             chapters == _try_parse_timestamps(delivery)
         IN  IF delivery.PodcastStreams.tag = "null"
                \/ delivery.Streams.tag = "null"
             THEN Failed(Raise("TypeError"))   \* iteration over None
             ELSE IF FormatsMissing(formats)
             THEN Failed(Raise("no-formats"))
             ELSE IF chapters.kind = "raise"
             THEN Failed(Raise("AttributeError"))
             ELSE [ok |-> TRUE, error |-> NoError,
                   info |-> [id |-> video_id,
                             title |-> Title(delivery, video_id),
                             description |-> Get(delivery.SessionAbstract),
                             creator |-> Get(delivery.OwnerDisplayName),
                             duration |-> Get(delivery.Duration),
                             formats |-> SortFormats(formats),
                             chapters |-> chapters]]

\* ------------------------------------------- responses of the delivery API
StreamNames ==
    {Absent, Str(<<"Shared screen", ".", "mp4">>),
     Str(<<"Speaker view", ".", "mp4">>), Str(<<"Camera">>)}

PodcastEntries == [StreamUrl : {Absent, Str(<<>>), Str(<<"p">>)}]
\* a stream without a url is skipped before its name is read (line 81)
StreamEntries ==
    [StreamUrl : {Str(<<"a">>), Str(<<"b">>)}, Name : StreamNames]
    \cup [StreamUrl : {Absent, Str(<<>>)}, Name : {Absent}]

PodcastLists ==
    {AbsentList, NullList}
    \cup {List(items) : items \in SeqsUpTo(PodcastEntries, MaxPodcasts)}

StreamLists ==
    {AbsentList, NullList}
    \cup {List(items) : items \in SeqsUpTo(StreamEntries, MaxStreams)}

Durations == {Absent, None, IntVal(0), IntVal(60), FloatVal(60)}

TimestampEntries ==
    [Time : {IntVal(0), IntVal(30)},
     Caption : {Absent, Str(<<"Cap">>)},
     Data : {Absent, Str(<<"Intro">>)}]

TimestampLists ==
    {AbsentList, NullList}
    \cup {List(items) : items \in SeqsUpTo(TimestampEntries, MaxTimestamps)}

DefaultDelivery ==
    [SessionGroupLongName |-> Str(<<"A">>), SessionName |-> Str(<<"B">>),
     PublicID |-> Absent, SessionAbstract |-> Str(<<"about">>),
     OwnerDisplayName |-> Absent,
     PodcastStreams |-> List(<<[StreamUrl |-> Str(<<"p">>)]>>),
     Streams |-> AbsentList, Duration |-> FloatVal(60),
     Timestamps |-> AbsentList]

\* deliveries that vary the fields the title is made of
TitleDeliveries ==
    {[DefaultDelivery EXCEPT !.SessionGroupLongName = g, !.SessionName = n,
                             !.PublicID = p] :
        g \in {Absent, None, Str(<<>>), Str(<<"A">>)},
        n \in {Absent, Str(<<>>), Str(<<"B">>)},
        p \in {Absent, None, Str(<<>>), Str(<<"X">>)}}

\* deliveries that vary the stream lists, with and without chapters
MediaDeliveries ==
    {[DefaultDelivery EXCEPT !.PodcastStreams = ps, !.Streams = st,
                             !.Duration = d,
                             !.Timestamps = List(<<[Time |-> IntVal(0),
                                 Caption |-> Absent,
                                 Data |-> Str(<<"Intro">>)]>>)] :
        ps \in PodcastLists, st \in StreamLists,
        d \in {IntVal(60), FloatVal(60)}}

\* deliveries that vary the duration and the timestamps
ChapterDeliveries ==
    {[DefaultDelivery EXCEPT !.Duration = d, !.Timestamps = ts] :
        d \in Durations, ts \in TimestampLists}

Deliveries == TitleDeliveries \cup MediaDeliveries \cup ChapterDeliveries

ErrorCodes == {Absent, None, IntVal(0), IntVal(1), IntVal(500)}

ErrorMessages ==
    {Absent, None, Str(<<>>), Str(<<"Unauthorized", " access">>),
     Str(<<"Server error">>)}

\* what the request of line 59 can receive: no response at all, an
\* error-shaped object, or an object with a Delivery
Responses ==
    [transport_ok : {FALSE}, ErrorCode : {Absent}, ErrorMessage : {Absent},
     hasDelivery : {FALSE}, Delivery : {DefaultDelivery}]
    \cup [transport_ok : {TRUE}, ErrorCode : ErrorCodes,
          ErrorMessage : ErrorMessages, hasDelivery : BOOLEAN,
          Delivery : {DefaultDelivery}]
    \cup [transport_ok : {TRUE}, ErrorCode : {Absent},
          ErrorMessage : {Absent}, hasDelivery : {TRUE},
          Delivery : Deliveries]

VideoIds == {<<"v1">>, <<"v2">>}

\* ------------------------------- responses of the folder and session APIs
FolderId == <<"f1">>

FolderResponses ==
    [transport_ok : {FALSE}, ErrorCode : {Absent}, ErrorMessage : {Absent},
     Name : {Absent}]
    \cup [transport_ok : {TRUE}, ErrorCode : {IntVal(1)},
          ErrorMessage : {Absent, Str(<<"Unauthorized", " access">>),
                          Str(<<"Server error">>)},
          Name : {Absent}]
    \cup {[transport_ok |-> TRUE, ErrorCode |-> Absent,
            ErrorMessage |-> Absent, Name |-> Str(<<"Folder">>)],
           [transport_ok |-> TRUE, ErrorCode |-> IntVal(0),
            ErrorMessage |-> Absent, Name |-> Absent]}

\* the session ids the server lists
FolderVideoIds == {<<"v1">>, <<"v2">>, <<"e2">>}

GoodResponse(delivery) ==
    [transport_ok |-> TRUE, ErrorCode |-> Absent, ErrorMessage |-> Absent,
     hasDelivery |-> TRUE, Delivery |-> delivery]

\* the response the server gives to the delivery request for an id: v1 and
\* v2 are playable sessions, e2 has an integer duration with timestamps
Catalogue(delivery_id) ==
    CASE delivery_id = <<"v1">> -> GoodResponse(DefaultDelivery)
      [] delivery_id = <<"v2">> ->
            GoodResponse([DefaultDelivery EXCEPT
                !.SessionName = Str(<<"C">>),
                !.Streams = List(<<[StreamUrl |-> Str(<<"a">>),
                    Name |-> Str(<<"Speaker view", ".", "mp4">>)]>>)])
      [] OTHER ->
            GoodResponse([DefaultDelivery EXCEPT
                !.Duration = IntVal(60),
                !.Timestamps = List(<<[Time |-> IntVal(0),
                    Caption |-> Absent, Data |-> Str(<<"Intro">>)]>>)])

\* what a GetSessions request can receive
PageResponses ==
    [transport_ok : {FALSE}, ErrorCode : {Absent}, ErrorMessage : {Absent},
     hasD : {FALSE}, TotalNumber : {0}, Results : {<<>>}]
    \cup [transport_ok : {TRUE}, ErrorCode : {IntVal(500)},
          ErrorMessage : {Absent, Str(<<"Unauthorized", " access">>),
                          Str(<<"Server error">>)},
          hasD : {FALSE}, TotalNumber : {0}, Results : {<<>>}]
    \cup [transport_ok : {TRUE}, ErrorCode : {Absent},
          ErrorMessage : {Absent}, hasD : {FALSE}, TotalNumber : {0},
          Results : {<<>>}]
    \cup [transport_ok : {TRUE}, ErrorCode : {Absent},
          ErrorMessage : {Absent}, hasD : {TRUE},
          TotalNumber : 0..MaxTotal,
          Results : SeqsUpTo(FolderVideoIds, MaxSessions)]

\* ------------------------------------------------------------------ state
VARIABLES
    response,       \* the response the delivery request of line 59 receives
    video_id,       \* the id matched from the viewer url (line 53)
    outcome,        \* what PanoptoIE._real_extract returned or raised
    vpc,            \* "call" before PanoptoIE._real_extract runs, "returned" after
    pc,             \* position in PanoptoFolderIE._real_extract
    folder_name,    \* line 145
    max_elements,   \* line 166
    entries,        \* line 167
    page_num,       \* line 169
    delivery_ids,   \* line 173
    idx,            \* position of the for loop of line 176 in delivery_ids
    result,         \* the playlist returned on lines 184-189
    error,          \* the error that left PanoptoFolderIE._real_extract
    folder_info,    \* history: the response to the GetFolderInfo request
    requests,       \* history: the network requests issued, in order
    pages           \* history: the session pages received, in order

vars == <<response, video_id, outcome, vpc, pc, folder_name, max_elements,
          entries, page_num, delivery_ids, idx, result, error, folder_info,
          requests, pages>>

videoVars == <<response, video_id, outcome, vpc>>

folderVars == <<pc, folder_name, max_elements, entries, page_num,
                delivery_ids, idx, result, error, folder_info, requests,
                pages>>

NoOutcome == Failed(Raise("pending"))

NoFolderInfo ==
    [transport_ok |-> FALSE, ErrorCode |-> Absent, ErrorMessage |-> Absent,
     Name |-> Absent]

NoPlaylist == [type |-> "none", title |-> None, id |-> <<>>, entries |-> <<>>]

\* the state of the locals of PanoptoFolderIE._real_extract before it runs
FolderIdle ==
    /\ folder_name = None
    /\ max_elements = None
    /\ entries = <<>>
    /\ page_num = 0
    /\ delivery_ids = <<>>
    /\ idx = 1
    /\ result = NoPlaylist
    /\ error = NoError
    /\ folder_info = NoFolderInfo
    /\ requests = <<>>
    /\ pages = <<>>

\* ------------------------------------------------- single video extraction
InitVideo ==
    /\ response \in Responses
    /\ video_id \in VideoIds
    /\ outcome = NoOutcome
    /\ vpc = "call"
    /\ pc = "idle"
    /\ FolderIdle

\* PanoptoIE._real_extract, lines 51-55
Extract ==
    /\ vpc = "call"
    /\ outcome' = _download_panopto_video(response, video_id)
    /\ vpc' = "returned"
    /\ UNCHANGED <<response, video_id>>
    /\ UNCHANGED folderVars

NextVideo == Extract

SpecVideo == InitVideo /\ [][NextVideo]_vars

\* ------------------------------------------------------ folder aggregation
Init ==
    /\ response = GoodResponse(DefaultDelivery)
    /\ video_id = <<"v1">>
    /\ outcome = NoOutcome
    /\ vpc = "idle"
    /\ pc = "start"
    /\ FolderIdle

\* the status of a response as the requester sees it
StatusOf(resp) ==
    IF ~resp.transport_ok THEN "transport"
    ELSE IF resp.ErrorCode.tag = "int" /\ resp.ErrorCode.n # 0 THEN "error"
    ELSE "ok"

Request(kind, page, id, resp) ==
    [kind |-> kind, page |-> page, maxResults |-> PAGE_SIZE, id |-> id,
     status |-> StatusOf(resp)]

\* an exception raised outside the try of line 177 swallowed instead
Swallowed(err) == "loop"

\* an exception raised outside the try of line 177 leaves _real_extract
Propagated(err) == "failed"

\* a handler that catches ExtractorError only
CaughtIfExtractorError(err) ==
    err.kind \in {"transport", "auth-required", "api-error", "no-formats"}

\* line 180: except Exception catches every error of the video fetch
Caught(err) == TRUE

\* max_elements is assigned from the first page only
TotalAfterPageFirstOnly(current, TotalNumber) ==
    IF current = None THEN IntVal(TotalNumber) ELSE current

\* line 172: max_elements after a page was received
TotalAfterPage(current, TotalNumber) == IntVal(TotalNumber)

\* the page number left as it is
NextPageStuck(n) == n

\* line 182
NextPage(n) == n + 1

\* the number of session ids the pages received so far have listed; at the
\* head of the loop each of them has been fetched
Listed == Len(SelectSeq(requests, LAMBDA r : r.kind = "video"))

\* line 170: the condition of the while loop
LoopContinues ==
    max_elements = None \/ Len(entries) < max_elements.n

\* lines 132-146 and 166-169
FetchFolderInfo ==
    /\ pc = "start"
    /\ \E resp \in FolderResponses :
        LET err == IF ~resp.transport_ok THEN Raise("transport")
                   ELSE handle_error_response(resp)
        IN  /\ requests' = Append(requests, Request("folder", 0, FolderId, resp))
            /\ folder_info' = resp
            /\ IF err.kind # "none"
               THEN /\ pc' = Propagated(err)
                    /\ error' = err
                    /\ UNCHANGED folder_name
               ELSE /\ pc' = "loop"
                    /\ folder_name' = Get(resp.Name)
                    /\ UNCHANGED error
    /\ max_elements' = None
    /\ entries' = <<>>
    /\ page_num' = 0
    /\ UNCHANGED <<delivery_ids, idx, result, pages>>
    /\ UNCHANGED videoVars

\* lines 170-175 with fetch_session (lines 150-164); a page without ids
\* skips the for loop and reaches line 182
FetchPage ==
    /\ pc = "loop"
    /\ LoopContinues
    /\ page_num < MaxPages
    /\ \E resp \in PageResponses :
        /\ Listed + Len(resp.Results) <= MaxSessions
        /\ LET err ==    IF ~resp.transport_ok THEN Raise("transport")
                      ELSE IF handle_error_response(resp).kind # "none"
                      THEN handle_error_response(resp)
                      ELSE IF ~resp.hasD THEN Raise("KeyError")
                      ELSE NoError
           IN  /\ requests' = Append(requests,
                                     Request("page", page_num, FolderId, resp))
               /\ IF err.kind # "none"
                  THEN /\ pc' = Propagated(err)
                       /\ error' = err
                       /\ UNCHANGED <<max_elements, delivery_ids, idx, page_num,
                                      pages>>
                  ELSE /\ max_elements' = TotalAfterPage(max_elements,
                                                         resp.TotalNumber)
                       /\ delivery_ids' = resp.Results
                       /\ idx' = 1
                       /\ pages' = Append(pages,
                              [TotalNumber |-> resp.TotalNumber,
                               Results |-> resp.Results])
                       /\ IF resp.Results = <<>>
                          THEN pc' = "loop" /\ page_num' = NextPage(page_num)
                          ELSE pc' = "video" /\ UNCHANGED page_num
                       /\ UNCHANGED error
    /\ UNCHANGED <<folder_name, entries, result, folder_info>>
    /\ UNCHANGED videoVars

\* lines 176-182: one iteration of the for loop; after the last id of the
\* page the page number is incremented
FetchVideo ==
    /\ pc = "video"
    /\ LET delivery_id == delivery_ids[idx]
           resp == Catalogue(delivery_id)
           video_entry == _download_panopto_video(resp, delivery_id)
       IN  /\ requests' = Append(requests,
                                 Request("video", page_num, delivery_id, resp))
           /\ IF video_entry.ok
              THEN /\ entries' = Append(entries, video_entry.info)
                   /\ UNCHANGED error
              ELSE /\ UNCHANGED entries
                   /\ error' = IF Caught(video_entry.error) THEN error
                               ELSE video_entry.error
           /\ IF ~video_entry.ok /\ ~Caught(video_entry.error)
              THEN pc' = "failed" /\ UNCHANGED <<idx, page_num>>
              ELSE IF idx = Len(delivery_ids)
              THEN pc' = "loop" /\ page_num' = NextPage(page_num) /\ UNCHANGED idx
              ELSE pc' = "video" /\ idx' = idx + 1 /\ UNCHANGED page_num
    /\ UNCHANGED <<folder_name, max_elements, delivery_ids, result, pages,
                   folder_info>>
    /\ UNCHANGED videoVars

\* lines 184-189
Return ==
    /\ pc = "loop"
    /\ ~LoopContinues
    /\ result' = [type |-> "playlist", title |-> folder_name,
                  id |-> FolderId, entries |-> entries]
    /\ pc' = "done"
    /\ UNCHANGED <<folder_name, max_elements, entries, page_num,
                   delivery_ids, idx, error, folder_info, requests, pages>>
    /\ UNCHANGED videoVars

Next == FetchFolderInfo \/ FetchPage \/ FetchVideo \/ Return

Spec == Init /\ [][Next]_vars

\* ================================================================ claims
\* ------------------------------------------------- single video extraction
Returned == vpc = "returned"

\* the preference weight of a format note as the specification tabulates it
PreferenceWeight(fmt) ==
    IF fmt.format_note = <<"podcast">> THEN 3
    ELSE IF fmt.format_note = <<"shared-screen">> THEN 2
    ELSE IF fmt.format_note = <<"speaker-view">> THEN 1
    ELSE 0

OfWeight(formats, w) == SelectSeq(formats, LAMBDA f : PreferenceWeight(f) = w)

\* C3 as stated: the returned formats are in DESCENDING order of preference
\* weight, so that a podcast format comes first and shared-screen precedes
\* speaker-view.
C3_FormatsDescending ==
    (Returned /\ outcome.ok) =>
        \A i, j \in 1..Len(outcome.info.formats) :
            i < j => PreferenceWeight(outcome.info.formats[i])
                     >= PreferenceWeight(outcome.info.formats[j])

\* C3 amended: the returned formats are in ASCENDING order of preference
\* weight (a podcast format, when present, is last and speaker-view precedes
\* shared-screen), formats of equal weight keeping their discovery order
\* (podcast list first, then the generic streams, each in input order).
C3_FormatsAscendingStable ==
    (Returned /\ outcome.ok) =>
        LET formats == outcome.info.formats
            found == CollectFormats(response.Delivery)
        IN  /\ \A i, j \in 1..Len(formats) :
                   i < j => PreferenceWeight(formats[i])
                            <= PreferenceWeight(formats[j])
            /\ formats = OfWeight(found, 0) \o OfWeight(found, 1)
                         \o OfWeight(found, 2) \o OfWeight(found, 3)

\* a podcast, a speaker view and a shared screen were found in that order
\* and all three are returned
C3_Witness ==
    /\ Returned /\ outcome.ok
    /\ Len(outcome.info.formats) = 3
    /\ CollectFormats(response.Delivery)[1].format_note = <<"podcast">>
    /\ CollectFormats(response.Delivery)[2].format_note = <<"speaker-view">>
    /\ CollectFormats(response.Delivery)[3].format_note = <<"shared-screen">>

\* C5 as stated: the chapter extractor returns no chapters exactly when the
\* duration is zero/absent or the timestamps are empty/absent, and otherwise,
\* for an integer as well as for a fractional duration D, one chapter per
\* timestamp, from its Time to the next Time, the last one ending at D.
C5_ChaptersForEveryDuration ==
    (Returned /\ outcome.error.kind \in {"none", "AttributeError"}) =>
        LET delivery == response.Delivery
            ts == delivery.Timestamps.items
            chapters == outcome.info.chapters
        IN  /\ outcome.ok
            /\ IF \/ delivery.Duration.tag \in {"absent", "null"}
                  \/ delivery.Duration.n = 0
                  \/ delivery.Timestamps.tag # "list"
                  \/ ts = <<>>
               THEN chapters.kind = "none"
               ELSE /\ chapters.kind = "list"
                    /\ Len(chapters.items) = Len(ts)
                    /\ \A i \in 1..Len(ts) :
                        /\ chapters.items[i].start_time.n = ts[i].Time.n
                        /\ chapters.items[i].end_time.n =
                              IF i < Len(ts) THEN ts[i + 1].Time.n
                              ELSE delivery.Duration.n

\* C6 as stated: a response with an ErrorCode field whose message contains
\* "Unauthorized" raises the expected auth-required error, any other response
\* with an ErrorCode field (whatever its value, with or without a message)
\* raises an api-error with that code and message, and a response without
\* the field raises nothing from the classifier.
C6_ThreeOutcomes ==
    (Returned /\ response.transport_ok) =>
        IF response.ErrorCode.tag # "absent"
           /\ Contains(response.ErrorMessage.s, "Unauthorized")
        THEN outcome.error.kind = "auth-required" /\ outcome.error.expected
        ELSE IF response.ErrorCode.tag # "absent"
        THEN /\ outcome.error.kind = "api-error"
             /\ outcome.error.code = response.ErrorCode.n
             /\ outcome.error.msg = Get(response.ErrorMessage)
        ELSE outcome.error.kind \notin {"auth-required", "api-error"}

\* C8 as stated: the title is the non-empty names joined with " -> ", else
\* the PublicID, else (PublicID absent, null or empty) the video id, and it
\* is never empty or null.
C8_TitleNeverEmpty ==
    (Returned /\ outcome.ok) =>
        LET delivery == response.Delivery
            group == delivery.SessionGroupLongName
            name == delivery.SessionName
            hasGroup == group.tag = "str" /\ group.s # <<>>
            hasName == name.tag = "str" /\ name.s # <<>>
            public == delivery.PublicID
        IN  /\ outcome.info.title.tag = "str"
            /\ outcome.info.title.s # <<>>
            /\ outcome.info.title.s =
                  IF hasGroup /\ hasName
                  THEN group.s \o <<" -> ">> \o name.s
                  ELSE IF hasGroup THEN group.s
                  ELSE IF hasName THEN name.s
                  ELSE IF public.tag = "str" /\ public.s # <<>>
                  THEN public.s
                  ELSE video_id

\* the urls of the entries of a list that have a non-empty url
PlayableUrls(list) ==
    LET urls == [i \in 1..Len(list.items) |-> list.items[i].StreamUrl]
        playable == SelectSeq(urls, LAMBDA u : u.tag = "str" /\ u.s # <<>>)
    IN  [i \in 1..Len(playable) |-> playable[i].s]

Occurrences(seq, x) == Cardinality({i \in 1..Len(seq) : seq[i] = x})

\* the request got a Delivery whose two stream lists are lists or absent
ReachesFormats ==
    /\ response.transport_ok
    /\ handle_error_response(response).kind = "none"
    /\ response.hasDelivery
    /\ response.Delivery.PodcastStreams.tag # "null"
    /\ response.Delivery.Streams.tag # "null"

\* C9: a returned video never has an empty format sequence: a delivery
\* without any podcast or stream entry with a non-empty url fails with the
\* "no playable formats" error, and the returned formats are, url for url,
\* the input entries that have a non-empty url.
C9_FormatsNeverEmpty ==
    Returned =>
        LET delivery == response.Delivery
            playable == PlayableUrls(delivery.PodcastStreams)
                        \o PlayableUrls(delivery.Streams)
            returned == [i \in 1..Len(outcome.info.formats) |->
                            outcome.info.formats[i].url]
        IN  /\ outcome.ok =>
                /\ outcome.info.formats # <<>>
                /\ Len(returned) = Len(playable)
                /\ \A i \in 1..Len(playable) :
                       Occurrences(returned, playable[i])
                       = Occurrences(playable, playable[i])
            /\ (ReachesFormats /\ playable = <<>>) =>
                   ~outcome.ok /\ outcome.error.kind = "no-formats"

\* both lists hold entries, none of them with a url, and the extraction
\* failed for want of formats
C9_Witness ==
    /\ Returned /\ ReachesFormats
    /\ response.Delivery.PodcastStreams.items # <<>>
    /\ Len(response.Delivery.Streams.items) = MaxStreams
    /\ outcome.error.kind = "no-formats"

\* ------------------------------------------------------ folder aggregation
VideoRequests == SelectSeq(requests, LAMBDA r : r.kind = "video")

\* every page received so far reported the total of the first page
SameTotals ==
    \A i \in 1..Len(pages) : pages[i].TotalNumber = pages[1].TotalNumber

\* C1 as stated: paging stops once the number of attempted video fetches,
\* successful or failed, reaches the total session count: at the head of the
\* loop, when the pages received list exactly TotalNumber ids and every one
\* of them was attempted, the loop exits and no further page is requested.
C1_StopsAtAttemptedTotal ==
    (/\ pc = "loop"
     /\ pages # <<>>
     /\ SameTotals
     /\ Len(VideoRequests) = pages[1].TotalNumber)
    => (max_elements # None /\ Len(entries) >= max_elements.n)

\* C2 as stated: the total used by the stop check is the TotalNumber of the
\* first page response and is never changed afterwards.
C2_TotalReadOnce ==
    pages # <<>> => max_elements = IntVal(pages[1].TotalNumber)

\* C2 amended: the total used by the stop check is the TotalNumber of the
\* most recent page response: at the head of the loop max_elements is the
\* total the last page reported, and the aggregation returns exactly when
\* the number of accumulated entries has reached that total.
C2_TotalOfLatestPage ==
    [][(pc = "loop" /\ pages # <<>>) =>
          /\ max_elements = IntVal(pages[Len(pages)].TotalNumber)
          /\ (pc' = "done")
             <=> (Len(entries) >= pages[Len(pages)].TotalNumber)]_vars

\* every fetch succeeded, and the listing was returned with fewer entries
\* than the first page announced because the second page announced fewer
C2_Witness ==
    /\ pc = "done"
    /\ Len(pages) = 2
    /\ pages[2].TotalNumber < pages[1].TotalNumber
    /\ Len(result.entries) = Len(VideoRequests)
    /\ Len(result.entries) < pages[1].TotalNumber
    /\ Len(result.entries) > 0

\* the ids fetched so far whose fetch and normalisation succeed
NormalizedIds ==
    SelectSeq([i \in 1..Len(VideoRequests) |-> VideoRequests[i].id],
              LAMBDA id : _download_panopto_video(Catalogue(id), id).ok)

\* C4: a failing video fetch, whatever its error, never aborts the
\* aggregation: the run fails only on a folder or page request, the entries
\* are the successfully normalised videos in fetch order with the failed
\* ones left out, and the listing returned has the folder's name and id.
C4_FailureSkipsVideo ==
    /\ pc = "failed" => requests[Len(requests)].kind # "video"
    /\ entries = [i \in 1..Len(NormalizedIds) |->
                     _download_panopto_video(Catalogue(NormalizedIds[i]),
                                             NormalizedIds[i]).info]
    /\ pc = "done" =>
          /\ result.type = "playlist"
          /\ result.title = Get(folder_info.Name)
          /\ result.id = FolderId
          /\ result.entries = entries

\* a listing was returned after a fetch that raised AttributeError between
\* two successful fetches
C4_Witness ==
    /\ pc = "done"
    /\ Len(result.entries) = 2
    /\ \E i, j, k \in 1..Len(VideoRequests) :
          /\ i < j /\ j < k
          /\ VideoRequests[i].id = <<"v1">>
          /\ VideoRequests[j].id = <<"e2">>
          /\ VideoRequests[k].id = <<"v2">>

\* C7: a folder-info or page request that fails (no response or an
\* error-shaped response) is the last request issued, and the aggregation
\* ends with the error and without any playlist.
C7_FolderAndPageErrorsFatal ==
    \A i \in 1..Len(requests) :
        (requests[i].kind \in {"folder", "page"} /\ requests[i].status # "ok")
        => /\ i = Len(requests)
           /\ pc = "failed"
           /\ error.kind # "none"
           /\ result = NoPlaylist

\* the second page request failed after entries had been accumulated
C7_Witness ==
    /\ pc = "failed"
    /\ requests[Len(requests)].kind = "page"
    /\ requests[Len(requests)].page = 1
    /\ requests[Len(requests)].status = "error"
    /\ entries # <<>>

Bare(r) == [kind |-> r.kind, page |-> r.page, id |-> r.id]

\* the request for page k (numbered from 1) and the fetches of its ids
PageBlock(k) ==
    <<[kind |-> "page", page |-> k - 1, id |-> FolderId]>>
    \o [i \in 1..Len(pages[k].Results) |->
           [kind |-> "video", page |-> k - 1, id |-> pages[k].Results[i]]]

RECURSIVE RequestsThrough(_)
RequestsThrough(k) ==
    IF k = 0 THEN <<[kind |-> "folder", page |-> 0, id |-> FolderId]>>
    ELSE RequestsThrough(k - 1) \o PageBlock(k)

IsPrefix(s, u) == Len(s) <= Len(u) /\ s = SubSeq(u, 1, Len(s))

\* C10: the requests are issued one after the other and once each: the
\* folder-info request, then for k = 0, 1, 2, ... the request for page k
\* followed by one delivery fetch per id of that page, in the page's order.
C10_SequentialRequests ==
    LET issued == [i \in 1..Len(requests) |-> Bare(requests[i])]
        n == Len(pages)
    IN  CASE pc = "start" -> issued = <<>>
          [] pc \in {"loop", "done"} -> issued = RequestsThrough(n)
          [] pc = "video" ->
                /\ IsPrefix(issued, RequestsThrough(n))
                /\ Len(issued) > Len(RequestsThrough(n - 1))
                /\ Len(issued) < Len(RequestsThrough(n))
          [] OTHER ->
                \/ issued = RequestsThrough(0) /\ n = 0
                \/ issued = RequestsThrough(n)
                            \o <<[kind |-> "page", page |-> n,
                                  id |-> FolderId]>>

\* two pages were received, the first with a fetch that failed, and every
\* id of both was fetched
C10_Witness ==
    /\ pc = "done"
    /\ Len(pages) = 2
    /\ Len(pages[1].Results) = 2
    /\ pages[2].Results # <<>>
    /\ Len(VideoRequests) > Len(entries)

====
